---- MODULE Spec2Model ----
(***************************************************************************)
(* Footfall tally counter (src/app.py): the write buffer kept in the       *)
(* Streamlit session (queue, last_flush, selected_day), the footfall table *)
(* it is flushed to, and the script run that every widget event or         *)
(* auto-refresh triggers: handler, get_summary, background flush.          *)
(***************************************************************************)
EXTENDS Integers, Sequences, FiniteSets, TLC

\* ------------------------------------------------------------ constants
FLUSH_SECONDS == 600
FLUSH_MAX == 50
\* execute_values(cur, sql, rows) is called without page_size: psycopg2 sends
\* one INSERT statement per page of 100 rows.
PAGE_SIZE == 100

\* ------------------------------------------------------------ bounds
MaxEvents == 3
MaxTicks == 2
LiveEvents == 2
BigEvents == 101
BigRows == 201
SizeEvents == 51

Kinds == {"total", "operational"}
Days == {1, 2}
\* seconds that may pass between two script runs
Steps == {0, 300}

VARIABLES
    queue,          \* st.session_state.queue: tuples (type, day, count)
    last_flush,     \* st.session_state.last_flush
    selected_day,   \* st.session_state.selected_day
    store,          \* rows of table footfall
    nextId,         \* the SERIAL sequence behind footfall.id
    now,            \* time.time()
    pc,             \* position of the running script
    op,             \* history: the step taken last and its outcome
    nextEid,        \* history: identity given to the next enqueued event
    inserted,       \* history: how often each event was inserted into footfall
    undos,          \* history: outcomes of the undo presses made in a row
    snap,           \* history: buffer and table as they were before the last enqueue
    retry,          \* history: the last flush attempt failed and none succeeded since
    secrets,        \* st.secrets: unreadable, readable without DB_URL, or its DB_URL
    environ,        \* os.getenv("DB_URL")
    DB_URL,         \* the module-level DB_URL of lines 19-25
    session,        \* the keys present in st.session_state
    peer_sent       \* INSERT statements another session's flush has committed

vars == <<queue, last_flush, selected_day, store, nextId, now, pc, op, nextEid,
          inserted, undos, snap, retry, secrets, environ, DB_URL, session,
          peer_sent>>

\* what the steps of an initialised session of this process leave alone
deployment == <<secrets, environ, DB_URL, session, peer_sent>>

\* ------------------------------------------------------------ helpers
Max(a, b) == IF a >= b THEN a ELSE b
Min(a, b) == IF a <= b THEN a ELSE b

\* the sum of n(c) * c over the values c in C
RECURSIVE SumTimes(_, _)
SumTimes(C, n) ==
    IF C = {} THEN 0
    ELSE LET c == CHOOSE x \in C : TRUE IN n[c] * c + SumTimes(C \ {c}, n)

\* SUM(count) over a set of rows: every count times the number of rows holding it
SumSet(S) ==
    LET C == {r.count : r \in S}
    IN SumTimes(C, [c \in C |-> Cardinality({r \in S : r.count = c})])

\* sum(c for ... in queue): the same over the entries of a sequence
SumSeq(s) ==
    LET C == {s[i].count : i \in DOMAIN s}
    IN SumTimes(C, [c \in C |-> Cardinality({i \in DOMAIN s : s[i].count = c})])

SelectKD(s, k, d) == SelectSeq(s, LAMBDA e : e.day = d /\ e.type = k)

\* ------------------------------------------------------------ the store
\* has_day_column(): init_db has run (lines 141-147), so the column exists and
\* the day-aware statements are the ones executed.
has_day_column == TRUE

db_summary_for_day(st, d) ==
    IF has_day_column
    THEN <<SumSet({r \in st : r.day = d /\ r.type = "total"}),
           SumSet({r \in st : r.day = d /\ r.type = "operational"})>>
    ELSE <<0, 0>>

\* variant: ORDER BY id ASC
db_undo_target_oldest(st, d) ==
    {r \in st : r.day = d /\ \A o \in st : o.day = d => r.id <= o.id}

\* DELETE ... WHERE id = (SELECT id ... WHERE day = d ORDER BY id DESC LIMIT 1)
db_undo_target(st, d) ==
    {r \in st : r.day = d /\ \A o \in st : o.day = d => o.id <= r.id}

db_undo_last_for_day(st, d) ==
    [store |-> st \ db_undo_target(st, d), deleted |-> db_undo_target(st, d) # {}]

\* number of INSERT statements execute_values issues for a batch
Pages(rows) == (Len(rows) + PAGE_SIZE - 1) \div PAGE_SIZE

\* rows of the batch covered by the first c statements
Committed(rows, c) == Min(Len(rows), c * PAGE_SIZE)

\* variant: rows[1:] inserted
db_flush_batch_skip_first(st, nid, rows, c) ==
    IF rows = <<>> THEN st
    ELSE st \cup {[id |-> nid + i - 1, type |-> rows[i].type, day |-> rows[i].day,
                   count |-> rows[i].count, eid |-> rows[i].eid]
                  : i \in 2..Committed(rows, c)}

\* CHECK (type IN ('total','operational')): a statement holding a row of another
\* type raises, so the first c statements run only if their rows pass
check_type(rows, c) == \A i \in 1..Committed(rows, c) : rows[i].type \in Kinds

\* db_flush_batch(rows) with c of its statements executed; the connection is in
\* autocommit mode, so every executed statement is durable on its own.
db_flush_batch(st, nid, rows, c) ==
    IF rows = <<>> THEN st
    ELSE st \cup {[id |-> nid + i - 1, type |-> rows[i].type, day |-> rows[i].day,
                   count |-> rows[i].count, eid |-> rows[i].eid]
                  : i \in 1..Committed(rows, c)}

\* ------------------------------------------------------------ the session
\* variant: the day filter of lines 160-161 dropped
pending_adjustments_any_day(q, d) ==
    <<SumSeq(SelectSeq(q, LAMBDA e : e.type = "total")),
      SumSeq(SelectSeq(q, LAMBDA e : e.type = "operational"))>>

pending_adjustments_for_day(q, d) ==
    <<SumSeq(SelectKD(q, "total", d)), SumSeq(SelectKD(q, "operational", d))>>

\* variant: line 172 without max(0, ...)
get_summary_unclamped(st, q, d) ==
    LET total == db_summary_for_day(st, d)[1] + pending_adjustments_for_day(q, d)[1]
        operational == db_summary_for_day(st, d)[2] + pending_adjustments_for_day(q, d)[2]
    IN [total |-> total, operational |-> operational,
        opportunities |-> total - operational]

get_summary(st, q, d) ==
    LET total == db_summary_for_day(st, d)[1] + pending_adjustments_for_day(q, d)[1]
        operational == db_summary_for_day(st, d)[2] + pending_adjustments_for_day(q, d)[2]
    IN [total |-> total, operational |-> operational,
        opportunities |-> Max(0, total - operational)]

\* variant: insert(0, ...) instead of append
enqueue_front(q, event_type, d, count, eid) ==
    <<[type |-> event_type, day |-> d, count |-> count, eid |-> eid]>> \o q

enqueue(q, event_type, d, count, eid) ==
    Append(q, [type |-> event_type, day |-> d, count |-> count, eid |-> eid])

\* variant: the time threshold of line 180 dropped
due_size_only(t, lf, q) == Len(q) >= FLUSH_MAX

\* variant: line 180 with > for >=
due_strict(t, lf, q) == (t - lf > FLUSH_SECONDS) \/ (Len(q) > FLUSH_MAX)

due(t, lf, q) == (t - lf >= FLUSH_SECONDS) \/ (Len(q) >= FLUSH_MAX)

\* the buffer and last_flush after db_flush_batch returned (ok) or raised
\* variant: queue.clear() moved before db_flush_batch
queue_cleared_first(q, ok) == <<>>

queue_after_flush(q, ok) == IF ok THEN <<>> ELSE q
last_flush_after_flush(lf, t, ok) == IF ok THEN t ELSE lf

\* variant: the scan of line 260 run forwards
undo_index_first(q, d) ==
    LET I == {i \in 1..Len(q) : q[i].day = d}
    IN IF I = {} THEN 0 ELSE CHOOSE i \in I : \A j \in I : i <= j

\* index of the last buffered entry of day d, 0 when there is none
undo_index(q, d) ==
    LET I == {i \in 1..Len(q) : q[i].day = d}
    IN IF I = {} THEN 0 ELSE CHOOSE i \in I : \A j \in I : j <= i

queue_pop(q, idx) == SubSeq(q, 1, idx - 1) \o SubSeq(q, idx + 1, Len(q))

\* ------------------------------------------------------------ startup
\* Python's None
None == "None"
\* st.secrets: no secrets file (reading raises), a file without the key DB_URL,
\* or the value stored under DB_URL
Secrets == {"unavailable", "nokey", "", "postgres://s"}
\* os.getenv("DB_URL"): None when unset
Environs == {None, "", "postgres://e"}

\* bool(u) as tested by line 35
truthy(u) == u \notin {None, ""}

\* lines 19-25: the environment is read only in the except branch
resolve_db_url(sec, env) ==
    IF sec = "unavailable" THEN env
    ELSE IF sec = "nokey" THEN None
    ELSE sec

\* variant: the test of line 35 dropped
get_db_no_check(url, connok) == IF connok THEN "conn" ELSE "stop"

\* lines 33-48: st.stop() without a URL or when connect raises
get_db(url, connok) ==
    IF ~truthy(url) THEN "stop"
    ELSE IF connok THEN "conn" ELSE "stop"

\* keys set by lines 141-157
SessionKeys == {"db_initialised", "selected_day", "queue", "last_flush"}

NoOp == [name |-> "init", res |-> "ok", n |-> 0]
NoSnap == [state |-> "none"]

Init ==
    /\ queue = <<>>
    /\ last_flush = 0
    /\ selected_day \in Days
    /\ store = {}
    /\ nextId = 1
    /\ now = 0
    /\ pc = "idle"
    /\ op = NoOp
    /\ nextEid = 1
    /\ inserted = <<>>
    /\ undos = <<>>
    /\ snap = NoSnap
    /\ retry = FALSE
    /\ secrets = "postgres://s"
    /\ environ = None
    /\ DB_URL = resolve_db_url(secrets, environ)
    /\ session = SessionKeys
    /\ peer_sent = 0


\* ------------------------------------------------------------ script runs
\* A widget event or the 15 s auto-refresh (line 192) reruns the script: time has
\* moved on by dt since the run before.
StartRun(dt) ==
    /\ pc = "idle"
    /\ now + dt <= MaxTicks * 300
    /\ now' = now + dt
    /\ UNCHANGED deployment

\* flush_if_needed(force) called at time t; c is the number of INSERT statements
\* the store executes before db_flush_batch returns (c = Pages) or raises.
flush_if_needed(force, t, c, who) ==
    IF force \/ due(t, last_flush, queue)
    THEN LET ok == (c = Pages(queue))
             m == Committed(queue, c)
         IN /\ c \in 0..Pages(queue)
            /\ check_type(queue, c)
            /\ nextId + m - 1 <= BigRows
            /\ store' = db_flush_batch(store, nextId, queue, c)
            /\ nextId' = nextId + m
            /\ inserted' = [e \in DOMAIN inserted |->
                              IF \E i \in 1..m : queue[i].eid = e
                              THEN inserted[e] + 1 ELSE inserted[e]]
            /\ queue' = queue_after_flush(queue, ok)
            /\ last_flush' = last_flush_after_flush(last_flush, t, ok)
            /\ op' = [name |-> who, res |-> IF ok THEN "ok" ELSE "fail", n |-> m,
                      retried |-> retry]
            /\ retry' = ~ok
    ELSE /\ c = 0
         /\ UNCHANGED <<store, nextId, inserted, queue, last_flush, retry>>
         /\ op' = [name |-> who, res |-> "skip", n |-> 0]

\* line 192: a rerun with no widget event
autorefresh(dt) ==
    /\ StartRun(dt)
    /\ pc' = "summary"
    /\ op' = [name |-> "tick", res |-> "ok", n |-> 0]
    /\ UNCHANGED <<queue, last_flush, selected_day, store, nextId, nextEid,
                   inserted, undos, snap, retry>>

\* lines 241-243
date_input(dt, d) ==
    /\ StartRun(dt)
    /\ d # selected_day
    /\ selected_day' = d
    /\ pc' = "summary"
    /\ op' = [name |-> "select", res |-> "ok", n |-> 0]
    /\ undos' = <<>>
    /\ snap' = NoSnap
    /\ UNCHANGED <<queue, last_flush, store, nextId, nextEid, inserted, retry>>

\* lines 248-250 and 253-255: enqueue(kind, selected_day, 1)
press(kind, dt, cap) ==
    /\ StartRun(dt)
    /\ nextEid <= cap
    /\ queue' = enqueue(queue, kind, selected_day, 1, nextEid)
    /\ nextEid' = nextEid + 1
    /\ inserted' = Append(inserted, 0)
    /\ pc' = "summary"
    /\ op' = [name |-> "enqueue", res |-> kind, n |-> 0]
    /\ undos' = <<>>
    /\ snap' = [state |-> "armed", queue |-> queue, store |-> store]
    /\ UNCHANGED <<last_flush, selected_day, store, nextId, retry>>

\* variant: a label that is not a type of the table
walkin_btn_mislabelled(dt, cap) == press("walkin", dt, cap)

walkin_btn(dt, cap) == press("total", dt, cap)

oper_btn(dt, cap) == press("operational", dt, cap)

\* history: the undo presses made in a row, kept from a press that found exactly
\* one buffered and one persisted event of the selected day
Streak(res) ==
    IF undos = <<>>
    THEN IF /\ Len(SelectSeq(queue, LAMBDA e : e.day = selected_day)) = 1
            /\ Cardinality({r \in store : r.day = selected_day}) = 1
         THEN <<res>> ELSE <<>>
    ELSE IF Len(undos) < 3 THEN Append(undos, res) ELSE undos

\* variant: queue.pop() of the newest entry made before the store is asked
undo_btn_pop_before_delete(dt, dbok) ==
    LET idx == undo_index(queue, selected_day)
        del == db_undo_last_for_day(store, selected_day)
    IN /\ StartRun(dt)
       /\ IF idx # 0
          THEN /\ dbok
               /\ queue' = queue_pop(queue, idx)
               /\ store' = store
               /\ op' = [name |-> "undo", res |-> "buffered", n |-> 0]
               /\ pc' = "summary"
          ELSE IF dbok
          THEN /\ queue' = queue
               /\ store' = del.store
               /\ op' = [name |-> "undo",
                         res |-> IF del.deleted THEN "persisted" ELSE "nothing", n |-> 0]
               /\ pc' = "summary"
          ELSE /\ queue' = SubSeq(queue, 1, Len(queue) - 1)
               /\ store' = store
               /\ op' = [name |-> "undo", res |-> "error", n |-> 0]
               /\ pc' = "idle"
       /\ undos' = Streak(op'.res)
       /\ snap' = IF snap.state = "armed" THEN [snap EXCEPT !.state = "closed"] ELSE NoSnap
       /\ UNCHANGED <<last_flush, selected_day, nextId, nextEid, inserted, retry>>

\* lines 258-269; dbok = FALSE: the DELETE raises and the run ends there
undo_btn(dt, dbok) ==
    LET idx == undo_index(queue, selected_day)
        del == db_undo_last_for_day(store, selected_day)
    IN /\ StartRun(dt)
       /\ IF idx # 0
          THEN /\ dbok
               /\ queue' = queue_pop(queue, idx)
               /\ store' = store
               /\ op' = [name |-> "undo", res |-> "buffered", n |-> 0]
               /\ pc' = "summary"
          ELSE IF dbok
          THEN /\ queue' = queue
               /\ store' = del.store
               /\ op' = [name |-> "undo",
                         res |-> IF del.deleted THEN "persisted" ELSE "nothing", n |-> 0]
               /\ pc' = "summary"
          ELSE /\ UNCHANGED <<queue, store>>
               /\ op' = [name |-> "undo", res |-> "error", n |-> 0]
               /\ pc' = "idle"
       /\ undos' = Streak(op'.res)
       /\ snap' = IF snap.state = "armed" THEN [snap EXCEPT !.state = "closed"] ELSE NoSnap
       /\ UNCHANGED <<last_flush, selected_day, nextId, nextEid, inserted, retry>>

\* lines 272-273
sync_btn(dt, c) ==
    /\ StartRun(dt)
    /\ flush_if_needed(TRUE, now', c, "sync")
    /\ pc' = "summary"
    /\ undos' = <<>>
    /\ snap' = NoSnap
    /\ UNCHANGED <<selected_day, nextEid>>

\* line 277; dbok = FALSE: the SELECT raises and the run ends before line 284
render_summary(dbok) ==
    /\ pc = "summary"
    /\ pc' = IF dbok THEN "bgflush" ELSE "idle"
    /\ op' = IF dbok
             THEN [name |-> "summary", res |-> "ok", n |-> 0,
                   val |-> get_summary(store, queue, selected_day)]
             ELSE [name |-> "summary", res |-> "error", n |-> 0]
    /\ snap' = IF snap.state = "closed" THEN NoSnap ELSE snap
    /\ UNCHANGED <<queue, last_flush, selected_day, store, nextId, now, nextEid,
                   inserted, undos, retry>>
    /\ UNCHANGED deployment

\* lines 283-284
background_flush(c) ==
    /\ pc = "bgflush"
    /\ flush_if_needed(FALSE, now, c, "bgflush")
    /\ pc' = "idle"
    /\ snap' = IF op'.res = "skip" THEN snap ELSE NoSnap
    /\ UNCHANGED <<selected_day, now, nextEid, undos>>
    /\ UNCHANGED deployment

Next ==
    \/ \E dt \in Steps : autorefresh(dt)
    \/ \E dt \in Steps, d \in Days : date_input(dt, d)
    \/ \E dt \in Steps : walkin_btn(dt, MaxEvents)
    \/ \E dt \in Steps : oper_btn(dt, MaxEvents)
    \/ \E dt \in Steps, dbok \in BOOLEAN : undo_btn(dt, dbok)
    \/ \E dt \in Steps, c \in 0..Pages(queue) : sync_btn(dt, c)
    \/ \E dbok \in BOOLEAN : render_summary(dbok)
    \/ \E c \in 0..Pages(queue) : background_flush(c)

Spec == Init /\ [][Next]_vars

\* A store outage during a busy spell: only walk-ins are pressed, back to back,
\* so that the buffer outgrows FLUSH_MAX and one page of execute_values.
NextBig ==
    \/ autorefresh(0)
    \/ walkin_btn(0, BigEvents)
    \/ \E dbok \in BOOLEAN : render_summary(dbok)
    \/ \E c \in 0..Pages(queue) : background_flush(c)

SpecBig == Init /\ [][NextBig]_vars

\* Walk-ins up to the size threshold of line 180, with the clock, the sync
\* button and a store that may refuse.
NextSize ==
    \/ \E dt \in Steps : autorefresh(dt)
    \/ walkin_btn(0, SizeEvents)
    \/ \E c \in 0..Pages(queue) : sync_btn(0, c)
    \/ \E dbok \in BOOLEAN : render_summary(dbok)
    \/ \E c \in 0..Pages(queue) : background_flush(c)

SpecSize == Init /\ [][NextSize]_vars

\* The auto-refresh never stops.  The clock has no end: past the horizon of the
\* model a tick moves last_flush back instead of now forward, which keeps
\* now - last_flush up to the horizon, and line 180 reads nothing else of them.
autorefresh_live(dt) ==
    /\ pc = "idle"
    /\ IF now + dt <= MaxTicks * 300
       THEN now' = now + dt /\ last_flush' = last_flush
       ELSE now' = now /\ last_flush' = Max(0, last_flush - dt)
    /\ pc' = "summary"
    /\ op' = [name |-> "tick", res |-> "ok", n |-> 0]
    /\ UNCHANGED <<queue, selected_day, store, nextId, nextEid, inserted, undos,
                   snap, retry>>
    /\ UNCHANGED deployment

Tick == \E dt \in Steps \ {0} : autorefresh_live(dt)

FlushStep == \E c \in 0..Pages(queue) : background_flush(c)

FlushAccepted == \E c \in 0..Pages(queue) : background_flush(c) /\ op'.res = "ok"

NextLive ==
    \/ Tick
    \/ \E dt \in Steps, d \in Days : date_input(dt, d)
    \/ \E dt \in Steps : walkin_btn(dt, LiveEvents)
    \/ \E dt \in Steps : oper_btn(dt, LiveEvents)
    \/ \E dt \in Steps, dbok \in BOOLEAN : undo_btn(dt, dbok)
    \/ \E dt \in Steps, c \in 0..Pages(queue) : sync_btn(dt, c)
    \/ \E dbok \in BOOLEAN : render_summary(dbok)
    \/ FlushStep

\* The timer of line 192 fires again and again, a started run goes on to line
\* 284, and the store, asked again and again, answers in the end.
SpecLive ==
    /\ Init /\ [][NextLive]_vars
    /\ SF_vars(Tick)
    /\ WF_vars(FlushStep)
    /\ SF_vars(render_summary(TRUE))
    /\ SF_vars(FlushAccepted)

\* ------------------------------------------------------------ properties
IsFlush(o) == o.name \in {"sync", "bgflush"}

\* the sums of the claims, taken row by row and entry by entry
RECURSIVE PersistedSum(_, _, _)
PersistedSum(k, d, n) ==
    IF n = 0 THEN 0
    ELSE LET R == {r \in store : r.id = n /\ r.type = k /\ r.day = d}
         IN (IF R = {} THEN 0 ELSE (CHOOSE r \in R : TRUE).count) + PersistedSum(k, d, n - 1)

RECURSIVE BufferedSum(_, _, _)
BufferedSum(k, d, n) ==
    IF n = 0 THEN 0
    ELSE (IF queue[n].type = k /\ queue[n].day = d THEN queue[n].count ELSE 0)
         + BufferedSum(k, d, n - 1)

Persisted(k, d) == PersistedSum(k, d, nextId - 1)
Buffered(k, d) == BufferedSum(k, d, Len(queue))

\* C1: a flush attempt whose batch insert raises leaves the buffer (same events,
\* same order) and last_flush as they were.
C1_FailedFlushKeepsBuffer ==
    [][(IsFlush(op') /\ op'.res = "fail")
       => (queue' = queue /\ last_flush' = last_flush)]_vars

C1_Witness ==
    /\ op.name = "sync" /\ op.res = "fail"
    /\ Len(queue) >= 2
    /\ nextId > 1 /\ store = {}

\* C2: every enqueued event is inserted into the store at most once.
C2_InsertedAtMostOnce == \A e \in DOMAIN inserted : inserted[e] <= 1

\* C3: a call of db_flush_batch that raises has persisted either the whole batch
\* or none of it.
C3_BatchAllOrNothing ==
    (IsFlush(op) /\ op.res = "fail") => op.n \in {0, Len(queue)}

\* C4: get_summary(d) returns, for total and for operational, the persisted sum
\* of day d plus the buffered sum of day d; other days do not contribute.
C4_SummaryIsPersistedPlusBuffered ==
    /\ \A d \in Days :
          /\ get_summary(store, queue, d).total
                = Persisted("total", d) + Buffered("total", d)
          /\ get_summary(store, queue, d).operational
                = Persisted("operational", d) + Buffered("operational", d)
    /\ (op.name = "summary" /\ op.res = "ok") =>
          /\ op.val.total
                = Persisted("total", selected_day) + Buffered("total", selected_day)
          /\ op.val.operational
                = Persisted("operational", selected_day) + Buffered("operational", selected_day)

C4_Witness ==
    /\ op.name = "summary" /\ op.res = "ok"
    /\ Persisted("total", selected_day) >= 1
    /\ Buffered("total", selected_day) >= 1
    /\ op.val.total = 2
    /\ \E d \in Days : d # selected_day /\ Buffered("total", d) + Persisted("total", d) >= 1

\* C5: a successful flush empties the buffer, adds to the store exactly one row
\* per buffered event (same kind, day, count), sets last_flush to the flush time
\* and changes get_summary(d) for no day d.
C5_SuccessfulFlushMovesEvents ==
    [][(IsFlush(op') /\ op'.res = "ok") =>
         /\ queue' = <<>>
         /\ store \subseteq store'
         /\ Cardinality(store' \ store) = Len(queue)
         /\ \A i \in 1..Len(queue) :
               \E r \in store' \ store :
                  /\ r.eid = queue[i].eid /\ r.type = queue[i].type
                  /\ r.day = queue[i].day /\ r.count = queue[i].count
         /\ last_flush' = now'
         /\ \A d \in Days :
               get_summary(store', queue', d) = get_summary(store, queue, d)]_vars

C5_Witness ==
    /\ IsFlush(op) /\ op.res = "ok" /\ op.n >= 2
    /\ Cardinality(store) > op.n
    /\ last_flush > 0

\* C6: undo for the selected day D removes the last-appended buffered entry of D
\* and leaves the store alone; with none buffered it deletes one persisted row
\* of D; with neither it removes nothing.  One buffered and one persisted event
\* of D, then three undos: buffered, persisted, nothing.
C6_UndoPrefersBuffer ==
    [][(op'.name = "undo" /\ op'.res # "error") =>
         LET D == selected_day
             B == {i \in 1..Len(queue) : queue[i].day = D}
             P == {r \in store : r.day = D}
         IN /\ B # {} =>
                 /\ op'.res = "buffered"
                 /\ store' = store
                 /\ \E i \in B :
                       /\ \A j \in B : j <= i
                       /\ Len(queue') = Len(queue) - 1
                       /\ \A j \in 1..Len(queue') :
                             queue'[j] = IF j < i THEN queue[j] ELSE queue[j + 1]
            /\ (B = {} /\ P # {}) =>
                 /\ op'.res = "persisted"
                 /\ queue' = queue
                 /\ \E r \in P : store' = store \ {r}
            /\ (B = {} /\ P = {}) =>
                 /\ op'.res = "nothing"
                 /\ queue' = queue /\ store' = store
            /\ (Len(undos') = 3 /\ \A i \in 1..3 : undos'[i] # "error") =>
                 undos' = <<"buffered", "persisted", "nothing">>]_vars

C6_Witness ==
    /\ op.name = "undo"
    /\ undos = <<"buffered", "persisted", "nothing">>

\* C7: enqueue(k, d, 1) immediately followed by undo for d restores the buffer,
\* the store and get_summary(d), and the undo takes the buffered branch.
C7_EnqueueUndoRoundTrip ==
    (op.name = "undo" /\ snap.state = "closed") =>
        /\ op.res = "buffered"
        /\ queue = snap.queue
        /\ store = snap.store
        /\ \A d \in Days :
              get_summary(store, queue, d) = get_summary(snap.store, snap.queue, d)

C7_Witness ==
    /\ op.name = "undo" /\ snap.state = "closed"
    /\ \E i \in 1..Len(queue) : queue[i].day = selected_day
    /\ \E r \in store : r.day = selected_day

\* C8: get_summary(d).opportunities is max(0, total - operational) of the
\* persisted plus buffered sums, so never negative.
C8_OpportunitiesClamped ==
    \A d \in Days :
        LET t == Persisted("total", d) + Buffered("total", d)
            o == Persisted("operational", d) + Buffered("operational", d)
            s == get_summary(store, queue, d)
        IN /\ s.opportunities >= 0
           /\ s.opportunities = IF t >= o THEN t - o ELSE 0
           /\ (op.name = "summary" /\ op.res = "ok" /\ d = selected_day)
                 => op.val.opportunities = s.opportunities

C8_Witness ==
    /\ op.name = "summary" /\ op.res = "ok"
    /\ op.val.operational > op.val.total
    /\ op.val.opportunities = 0
    /\ Persisted("operational", selected_day) >= 1
    /\ Buffered("operational", selected_day) >= 1

\* nothing is due: neither threshold of line 180 is reached at the time of the call
NothingDue == now' - last_flush < FLUSH_SECONDS /\ Len(queue) < FLUSH_MAX

\* C9 (as stated): a flush call when nothing is due, or with an empty buffer,
\* changes neither the buffer, nor last_flush, nor the store.
C9_FlushNoOp ==
    [][(IsFlush(op') /\ ((op'.name = "bgflush" /\ NothingDue) \/ queue = <<>>))
       => (queue' = queue /\ last_flush' = last_flush /\ store' = store)]_vars

\* C9 (amended): such a call changes neither the buffer nor the store; last_flush
\* is unchanged when the call is not forced and nothing is due, and is set to the
\* time of the call when a forced or due flush finds the buffer empty.
C9_FlushNoOpAmended ==
    [][(IsFlush(op') /\ ((op'.name = "bgflush" /\ NothingDue) \/ queue = <<>>))
       => /\ queue' = queue
          /\ store' = store
          /\ nextId' = nextId
          /\ IF op'.name = "bgflush" /\ NothingDue
             THEN last_flush' = last_flush
             ELSE last_flush' = now']_vars

C9_Witness ==
    /\ op.name = "sync" /\ op.res = "ok" /\ op.n = 0
    /\ queue = <<>>
    /\ last_flush = now /\ now > 0
    /\ store # {}

InBuffer(e) == \E i \in 1..Len(queue) : queue[i].eid = e

\* C10: with the tick firing for ever and the store accepting in the end, no
\* enqueued event stays in the buffer for ever: it is flushed or undone.
C10_BufferedEventLeaves ==
    \A e \in 1..LiveEvents :
        InBuffer(e) ~> (~InBuffer(e) /\ e \in DOMAIN inserted /\ inserted[e] <= 1)

C10_Witness ==
    /\ op.name = "bgflush" /\ op.res = "ok" /\ op.n >= 1
    /\ op.retried
    /\ \A e \in DOMAIN inserted : inserted[e] = 1

OtherDays(q, d) == SelectSeq(q, LAMBDA e : e.day # d)

\* C11: one undo for the selected day D removes at most one event from buffer
\* and store together; falling through to the store it deletes exactly the row
\* of D with the greatest id (true), or nothing when D has no row (false); the
\* events of every other day stay as they are.
C11_UndoRemovesOneGreatestId ==
    [][(op'.name = "undo") =>
         LET D == selected_day
             P == {r \in store : r.day = D}
         IN /\ (Len(queue) + Cardinality(store))
                 - (Len(queue') + Cardinality(store')) \in {0, 1}
            /\ op'.res = "persisted" =>
                 /\ queue' = queue
                 /\ \E r \in P : /\ \A o \in P : o.id <= r.id
                                 /\ store' = store \ {r}
                                 /\ Cardinality(store') = Cardinality(store) - 1
            /\ op'.res = "nothing" =>
                 /\ P = {} /\ store' = store /\ queue' = queue
            /\ op'.res \in {"persisted", "nothing"} =>
                 \A i \in 1..Len(queue) : queue[i].day # D
            /\ {r \in store' : r.day # D} = {r \in store : r.day # D}
            /\ OtherDays(queue', D) = OtherDays(queue, D)]_vars

C11_Witness ==
    /\ op.name = "undo" /\ op.res = "persisted"
    /\ \E r \in store : r.day = selected_day /\ r.id < nextId - 1
    /\ \E r \in store : r.day # selected_day

\* C12: enqueue succeeds without the store: one entry (kind, day, 1) is appended
\* at the end of the buffer; the earlier entries, last_flush and the store stay
\* as they are and no store call is made.
C12_EnqueueIsLocal ==
    [][(op'.name = "enqueue") =>
         /\ Len(queue') = Len(queue) + 1
         /\ SubSeq(queue', 1, Len(queue)) = queue
         /\ queue'[Len(queue')].type = op'.res
         /\ queue'[Len(queue')].day = selected_day
         /\ queue'[Len(queue')].count = 1
         /\ last_flush' = last_flush
         /\ store' = store
         /\ nextId' = nextId]_vars

\* the store was unreachable at the flush before the press
C12_Witness ==
    /\ op.name = "enqueue" /\ op.res = "operational"
    /\ retry
    /\ Len(queue) >= 2
    /\ store # {}

\* C13: a store failure during get_summary or during the persisted branch of undo
\* ends that run with the error and leaves buffer, last_flush and store as they
\* were.
C13_ReadPathFailureChangesNothing ==
    [][(op'.name \in {"summary", "undo"} /\ op'.res = "error") =>
         /\ queue' = queue
         /\ last_flush' = last_flush
         /\ store' = store
         /\ nextId' = nextId
         /\ pc' = "idle"]_vars

C13_Witness ==
    /\ op.name = "undo" /\ op.res = "error"
    /\ queue # <<>>
    /\ \E r \in store : r.day = selected_day

C17_FlushAttemptedIffForcedOrDue ==
    [][IsFlush(op') =>
         /\ (op'.res # "skip") <=>
               (op'.name = "sync" \/ now' - last_flush >= 600 \/ Len(queue) >= 50)
         /\ (op'.res = "skip") =>
               /\ store' = store /\ nextId' = nextId
               /\ queue' = queue /\ last_flush' = last_flush]_vars

\* an unforced attempt made on the size threshold alone, at exactly 50 entries
C17_Witness ==
    /\ op.name = "bgflush" /\ op.res = "fail"
    /\ Len(queue) = 50
    /\ now - last_flush < 600

\* C18 (as stated): the number of buffered events never exceeds FLUSH_MAX (50).
C18_BufferBounded == Len(queue) <= 50

\* C18 (amended): whenever the background flush of a run did not fail, the
\* buffer holds fewer than 50 events afterwards.
C18_BufferBelowMaxAfterGoodRun ==
    (op.name = "bgflush" /\ op.res # "fail") => Len(queue) < 50

C18_Witness ==
    /\ op.name = "bgflush" /\ op.res = "ok" /\ op.n = 50
    /\ queue = <<>>
    /\ now - last_flush < 600

\* enqueue order of the events of day d that are still in buffer or store
Surviving(d) ==
    {queue[i].eid : i \in {j \in 1..Len(queue) : queue[j].day = d}}
        \cup {r.eid : r \in {x \in store : x.day = d}}

IsLatest(e, d) == e \in Surviving(d) /\ \A x \in Surviving(d) : x <= e

\* C19: in one session, the event an undo for day D removes is the surviving
\* event of D enqueued last: every buffered event of D was enqueued after every
\* persisted event of D, and store ids follow the order of enqueueing.
C19_UndoTargetsMostRecent ==
    \A d \in Days :
        LET idx == undo_index(queue, d)
            T == db_undo_target(store, d)
        IN /\ idx # 0 => IsLatest(queue[idx].eid, d)
           /\ (idx = 0 /\ T # {}) => \A r \in T : IsLatest(r.eid, d)
           /\ \A i \in 1..Len(queue) : \A r \in store :
                 (queue[i].day = d /\ r.day = d) => r.eid < queue[i].eid
           /\ \A r1, r2 \in store :
                 (r1.day = d /\ r2.day = d /\ r1.eid < r2.eid) => r1.id < r2.id


\* ------------------------------------------------------------ first run
BootEvents == 1

\* A new session at line 1 of the script: nothing in st.session_state yet;
\* queue, last_flush and selected_day hold no value the script has set.
InitBoot ==
    /\ queue = <<>>
    /\ last_flush = 0
    /\ selected_day = 1
    /\ store = {}
    /\ nextId = 1
    /\ now = 0
    /\ pc = "boot"
    /\ op = NoOp
    /\ nextEid = 1
    /\ inserted = <<>>
    /\ undos = <<>>
    /\ snap = NoSnap
    /\ retry = FALSE
    /\ secrets \in Secrets
    /\ environ \in Environs
    /\ DB_URL = None
    /\ session = {}
    /\ peer_sent = 0

\* lines 19-25 and 141-157 of a run without db_initialised; a run stopped by
\* st.stop() ends before any widget exists, and a reload starts over.
\* connok = FALSE: psycopg2.connect or init_db raises.
startup(connok, today) ==
    /\ pc \in {"boot", "stopped"}
    /\ DB_URL' = resolve_db_url(secrets, environ)
    /\ IF get_db(DB_URL', connok) = "conn"
       THEN /\ session' = SessionKeys
            /\ selected_day' = today
            /\ queue' = <<>>
            /\ last_flush' = now
            /\ pc' = "summary"
            /\ op' = [name |-> "startup", res |-> "ok", n |-> 0]
       ELSE /\ pc' = "stopped"
            /\ op' = [name |-> "startup", res |-> "stopped", n |-> 0]
            /\ UNCHANGED <<session, selected_day, queue, last_flush>>
    /\ UNCHANGED <<store, nextId, now, nextEid, inserted, undos, snap, retry,
                   secrets, environ, peer_sent>>

NextBoot ==
    \/ \E connok \in BOOLEAN, today \in Days : startup(connok, today)
    \/ \E dt \in Steps : autorefresh(dt)
    \/ \E dt \in Steps : walkin_btn(dt, BootEvents)
    \/ \E dt \in Steps, dbok \in BOOLEAN : undo_btn(dt, dbok)
    \/ \E dt \in Steps, c \in 0..Pages(queue) : sync_btn(dt, c)
    \/ \E dbok \in BOOLEAN : render_summary(dbok)
    \/ \E c \in 0..Pages(queue) : background_flush(c)

SpecBoot == InitBoot /\ [][NextBoot]_vars

\* C14: when DB_URL is missing the run stops at startup: no key of the session
\* state is set and no enqueue, undo, summary or flush is ever executed.
C14_MissingUrlStops ==
    ~truthy(resolve_db_url(secrets, environ)) =>
        /\ session = {}
        /\ pc \in {"boot", "stopped"}
        /\ op.name \in {"init", "startup"}
        /\ op.name = "startup" => op.res = "stopped"
        /\ queue = <<>> /\ store = {} /\ nextId = 1

C14_Witness ==
    /\ ~truthy(resolve_db_url(secrets, environ))
    /\ pc = "stopped"
    /\ op.name = "startup"

\* C20: when no DB_URL secret is configured and the environment variable DB_URL
\* is set, the resolved DB_URL is the value of the environment variable.
C20_EnvFallback ==
    (pc # "boot" /\ secrets \in {"unavailable", "nokey"} /\ truthy(environ))
        => DB_URL = environ


\* ------------------------------------------------------------ two sessions
PeerEvents == 101
PeerDay == 1

\* Another session on the same store comes out of an outage with PeerEvents
\* walk-ins of one day in its own buffer (a buffer SpecBig reaches) and flushes.
peer_queue ==
    [i \in 1..PeerEvents |-> [type |-> "total", day |-> PeerDay, count |-> 1, eid |-> 0]]

\* the peer's execute_values sends its next INSERT statement (line 138); the
\* connection is in autocommit mode, so the page is visible to every session
peer_insert ==
    LET lo == peer_sent * PAGE_SIZE + 1
        page == SubSeq(peer_queue, lo, Committed(peer_queue, peer_sent + 1))
    IN /\ peer_sent < Pages(peer_queue)
       /\ nextId + Len(page) - 1 <= BigRows
       /\ store' = db_flush_batch(store, nextId, page, 1)
       /\ nextId' = nextId + Len(page)
       /\ peer_sent' = peer_sent + 1
       /\ op' = [name |-> "peer_insert", res |-> "ok", n |-> Len(page)]
       /\ UNCHANGED <<queue, last_flush, selected_day, now, pc, nextEid, inserted,
                      undos, snap, retry, secrets, environ, DB_URL, session>>

NextMulti ==
    \/ peer_insert
    \/ autorefresh(0)
    \/ \E d \in Days : date_input(0, d)
    \/ \E dbok \in BOOLEAN : undo_btn(0, dbok)
    \/ \E dbok \in BOOLEAN : render_summary(dbok)
    \/ \E c \in 0..Pages(queue) : background_flush(c)

SpecMulti == Init /\ [][NextMulti]_vars

\* the peer's batch is partly in the store
PeerBatchTorn == 0 < peer_sent /\ peer_sent < Pages(peer_queue)

\* C15: with sessions sharing one store, an undo that falls through to the store
\* deletes exactly one row, the row of its day with the greatest id at that
\* moment, and never acts while another session's batch is partly inserted.
C15_UndoAtomicAgainstBatch ==
    [][(op'.name = "undo" /\ op'.res = "persisted") =>
         LET P == {r \in store : r.day = selected_day}
         IN /\ \E r \in P : /\ \A o \in P : o.id <= r.id
                            /\ store' = store \ {r}
            /\ Cardinality(store') = Cardinality(store) - 1
            /\ ~PeerBatchTorn]_vars

\* the first half of C15 alone
C15_UndoDeletesGreatestId ==
    [][(op'.name = "undo" /\ op'.res = "persisted") =>
         LET P == {r \in store : r.day = selected_day}
         IN /\ \E r \in P : /\ \A o \in P : o.id <= r.id
                            /\ store' = store \ {r}
            /\ Cardinality(store') = Cardinality(store) - 1]_vars

====
